---- MODULE Spec2Model ----
(***************************************************************************)
(* Model of rembg-offline: the progress broadcaster with its listeners     *)
(* (src/src/progress.ts), the patched fetch with its in-flight map and     *)
(* memory cache and the model loader init()/forceWASMMode()                *)
(* (src/unnamed/part_001, the revision at lines 212-428), and the          *)
(* compositing of removeBackground(): the compositor worker, the hand-over *)
(* to it and the main-thread fallback (src/unnamed/part_000).              *)
(*                                                                         *)
(* Every action is one synchronous run of the code between two awaits.     *)
(***************************************************************************)
EXTENDS Integers, Sequences, FiniteSets, TLC

(* ---------------------------- bounds ----------------------------------- *)
\* number of init() calls in a behaviour of the loader-only specification
MaxCalls == 3
\* number of init() calls in a behaviour of the whole program
MaxInits == 2
\* number of requests made to the patched fetch in a behaviour
MaxFetches == 2
\* number of init() calls in a behaviour that follows the patched fetch
MaxFetchInits == 1
\* init() calls made by the host itself next to a removeBackground() call
MaxHostInits == 1
\* chunks of a download that is followed by its byte counts alone
MaxChunks == 3
\* number of beginNewSession() calls in the broadcaster-only specification
MaxSessions == 3
\* largest width and height of the images composited pixel by pixel
MaxDim == 2
\* largest of the small widths and heights a preview size is computed for
MaxSide == 4
\* accepted broadcaster operations in a behaviour with subscribers
MaxOps == 1
\* subscribe() calls in a behaviour, and calls of one returned unsubscribe
MaxSubscribes == 2
MaxUnsubscribes == 1
\* accepted broadcaster operations and subscribe() calls in a behaviour
\* that follows one session from its first report to ready
MaxObservedOps == 4
MaxObservers == 1
\* beginNewSession() calls in a behaviour with subscribers
MaxListenerSessions == 1

(* ---------------------------- helpers ---------------------------------- *)
Max2(a, b) == IF a >= b THEN a ELSE b
Min2(a, b) == IF a <= b THEN a ELSE b

\* (n + 1) | 0 of JavaScript: the sum truncated to a signed 32-bit integer
Int32Max == 2147483647
PlusOneInt32(n) == IF n = Int32Max THEN (0 - Int32Max) - 1 ELSE n + 1

\* "no value" of an optional field, and of a variable holding null
Undefined == "undefined"
Null == 0

(* ------------------------ progress broadcaster ------------------------- *)
Phases == {"idle", "downloading", "building", "ready", "error"}

\* error messages passed to setError
Msgs == {"load failed", "stream failed"}

\* percent arguments of setNetworkProgress, in hundredths of a percent so
\* that Math.floor has something to do: -5, 0, 10, 55.5, 99, 99.99, 100, 150
PercentArgs == {-500, 0, 1000, 5550, 9900, 9999, 10000, 15000}

\* initial value of OnnxProgress.state
InitialState ==
    [phase |-> "idle", progress |-> 0, errorMsg |-> Undefined, sessionId |-> 0]

\* Math.floor of a value given in hundredths
Floor100(h) == h \div 100

\* the guard every report starts with: sessionId !== this.state.sessionId
Accepts(st, sessionId) == sessionId = st.sessionId

beginNewSession(st) ==
    [phase |-> "idle", progress |-> 0, errorMsg |-> Undefined,
     sessionId |-> PlusOneInt32(st.sessionId)]

setNetworkProgress(st, percentH, sessionId) ==
    IF ~Accepts(st, sessionId) THEN st
    ELSE [st EXCEPT !.phase = "downloading",
                    !.progress = Max2(0, Min2(100, Floor100(percentH)))]

\* setBuilding without Math.max(this.state.progress, 99)
setBuildingKeepingProgress(st, sessionId) ==
    IF ~Accepts(st, sessionId) THEN st
    ELSE [st EXCEPT !.phase = "building"]

setBuilding(st, sessionId) ==
    IF ~Accepts(st, sessionId) THEN st
    ELSE [st EXCEPT !.phase = "building",
                    !.progress = Max2(st.progress, 99)]

setReady(st, sessionId) ==
    IF ~Accepts(st, sessionId) THEN st
    ELSE [st EXCEPT !.phase = "ready", !.progress = 100]

\* setError without its session guard
setErrorUnguarded(st, sessionId, errorMsg) ==
    [st EXCEPT !.phase = "error", !.errorMsg = errorMsg, !.progress = 0]

setError(st, sessionId, errorMsg) ==
    IF ~Accepts(st, sessionId) THEN st
    ELSE [st EXCEPT !.phase = "error", !.errorMsg = errorMsg, !.progress = 0]

(* ------------------------------ state ---------------------------------- *)
VARIABLES
    state,            \* OnnxProgress.state
    emitted,          \* the last step ran OnnxProgress.emit()
    call,             \* the last call made directly on the broadcaster
    patched,          \* window.__rembg_offline_fetch_patched__
    activeSessionId,  \* init.ts: activeSessionId
    cachedLoad,       \* init.ts: cachedLoad (Null or the load whose promise it holds)
    forceWasmNext,    \* init.ts: forceWasmNext
    gpu,              \* what navigator.gpu offers: "none", "fp32" or "fp16"
    loads,            \* the async bodies started by init(), by position
    calls,            \* for each init() call so far, the load whose promise it got
    forcedDuringLoad, \* forceWASMMode() has run while a load was in progress
    lastForced,       \* forceWASMMode() has run since the newest load started
                      \* (a load's field armed is the value it had at its start)
    fetches,          \* the requests made to the patched fetch
    inflight,         \* init.ts: inflight (url -> request owning the promise)
    memCache,         \* init.ts: memCache (url -> bytes)
    netCalls,         \* url -> number of originalFetch() invocations
    rb,               \* index.ts: one removeBackground() call being composited
    pv,               \* the preview size computed for one image
    listeners,        \* progress.ts: OnnxProgress.listeners, in insertion order
    received,         \* listener -> the calls it received, in order
    handles,          \* the subscribe() calls and their unsubscribe closures
    ops,              \* the accepted broadcaster operations, in order
    escaped,          \* the last call threw an exception to its caller
    probe,            \* one environment and what the capability probes returned in it
    pct               \* one download's byte counts and the percent reported for them

progressVars == <<state, emitted, call>>
loaderVars == <<patched, activeSessionId, cachedLoad, forceWasmNext, gpu, loads,
                calls, forcedDuringLoad, lastForced>>
fetchVars == <<fetches, inflight, memCache, netCalls>>
composeVars == <<rb, pv>>
listenerVars == <<listeners, received, handles, ops, escaped>>
pureVars == <<probe, pct>>
vars == <<progressVars, loaderVars, fetchVars, composeVars, listenerVars, pureVars>>

(* --------------------- the broadcaster, called directly ---------------- *)
NoCall == [op |-> "none", sessionId |-> 0]

\* the session ids from which one more session is begun: the first
\* MaxSessions ones, and the last ones before the 32-bit sum wraps
MayBegin(id) == (0 <= id /\ id < MaxSessions) \/ id >= Int32Max - 1

CallBeginNewSession ==
    /\ MayBegin(state.sessionId)
    /\ state' = beginNewSession(state)
    /\ emitted' = TRUE
    /\ call' = [op |-> "beginNewSession", sessionId |-> state'.sessionId]

CallSetNetworkProgress ==
    \E percentH \in PercentArgs, sessionId \in 0..MaxSessions :
        /\ state' = setNetworkProgress(state, percentH, sessionId)
        /\ emitted' = Accepts(state, sessionId)
        /\ call' = [op |-> "setNetworkProgress", sessionId |-> sessionId,
                    percentH |-> percentH]

CallSetBuilding ==
    \E sessionId \in 0..MaxSessions :
        /\ state' = setBuilding(state, sessionId)
        /\ emitted' = Accepts(state, sessionId)
        /\ call' = [op |-> "setBuilding", sessionId |-> sessionId]

CallSetReady ==
    \E sessionId \in 0..MaxSessions :
        /\ state' = setReady(state, sessionId)
        /\ emitted' = Accepts(state, sessionId)
        /\ call' = [op |-> "setReady", sessionId |-> sessionId]

CallSetError ==
    \E sessionId \in 0..MaxSessions, errorMsg \in Msgs \cup {Undefined} :
        /\ state' = setError(state, sessionId, errorMsg)
        /\ emitted' = Accepts(state, sessionId)
        /\ call' = [op |-> "setError", sessionId |-> sessionId]

(* ------------------------------ loader --------------------------------- *)
\* checkWebGPUCapabilities(): never throws; no gpu or no adapter gives no WebGPU
checkWebGPUCapabilities(g) ==
    IF g = "none" THEN [hasWebGPU |-> FALSE, hasFP16 |-> FALSE]
    ELSE [hasWebGPU |-> TRUE, hasFP16 |-> (g = "fp16")]

\* init(): const device = forceWasmNext ? 'wasm' : (hasWebGPU ? 'webgpu' : 'wasm')
selectDevice(force, capabilities) ==
    IF force THEN "wasm"
    ELSE IF capabilities.hasWebGPU THEN "webgpu" ELSE "wasm"

\* init(): dtype taken from the capabilities whatever the device
selectDtypeOfAdapter(device, capabilities) ==
    IF capabilities.hasFP16 THEN "fp16" ELSE "fp32"

\* init(): dtype, including the modelOptions.dtype override for wasm
selectDtype(device, capabilities) ==
    IF device = "webgpu"
    THEN (IF capabilities.hasFP16 THEN "fp16" ELSE "fp32")
    ELSE "fp32"

\* init() without the memo check
NeverCachedLoad == FALSE

\* init(): if (cachedLoad) return cachedLoad
HasCachedLoad == cachedLoad # Null

InProgress(l) == loads[l].pc \in {"probe", "model", "processor"}
LoadsInProgress == {l \in DOMAIN loads : InProgress(l)}

\* forceWASMMode()
forceWASMMode ==
    /\ forceWasmNext' = TRUE
    /\ cachedLoad' = Null
    /\ forcedDuringLoad' = (forcedDuringLoad \/ LoadsInProgress # {})
    /\ lastForced' = TRUE
    /\ emitted' = FALSE
    /\ UNCHANGED <<state, call, patched, activeSessionId, gpu, loads, calls, fetchVars>>

\* beginNewSession() returning the id of the session before
PreviousSessionId(st) == st.sessionId - 1

\* beginNewSession(): return this.state.sessionId
ReturnedSessionId(st) == st.sessionId

\* init(), up to the first await of the async body it may start (called
\* without the optional setModelLoaded callback, as removeBackground does)
init ==
    /\ patched' = TRUE
    /\ IF HasCachedLoad
       THEN /\ calls' = Append(calls, cachedLoad)
            /\ emitted' = FALSE
            /\ UNCHANGED <<state, activeSessionId, cachedLoad, loads, lastForced>>
       ELSE /\ state' = beginNewSession(state)
            /\ emitted' = TRUE
            /\ activeSessionId' = ReturnedSessionId(state')
            /\ loads' = Append(loads, [pc |-> "probe",
                                       sessionId |-> ReturnedSessionId(state'),
                                       device |-> Undefined, dtype |-> Undefined,
                                       armed |-> lastForced])
            /\ cachedLoad' = Len(loads) + 1
            /\ calls' = Append(calls, Len(loads) + 1)
            /\ lastForced' = FALSE
    /\ UNCHANGED <<call, forceWasmNext, gpu, forcedDuringLoad, fetchVars>>

\* init(): checkWebGPUCapabilities() has resolved; device and dtype are chosen
\* and AutoModel.from_pretrained is invoked
LoadProbed(l) ==
    /\ loads[l].pc = "probe"
    /\ LET capabilities == checkWebGPUCapabilities(gpu)
           device == selectDevice(forceWasmNext, capabilities)
       IN loads' = [loads EXCEPT ![l].pc = "model",
                                 ![l].device = device,
                                 ![l].dtype = selectDtype(device, capabilities)]
    /\ emitted' = FALSE
    /\ UNCHANGED <<state, call, patched, activeSessionId, cachedLoad, forceWasmNext,
                   gpu, calls, forcedDuringLoad, lastForced, fetchVars>>

\* init(): the model has loaded; setBuilding, then AutoProcessor.from_pretrained
LoadModelLoaded(l) ==
    /\ loads[l].pc = "model"
    /\ state' = setBuilding(state, loads[l].sessionId)
    /\ emitted' = Accepts(state, loads[l].sessionId)
    /\ loads' = [loads EXCEPT ![l].pc = "processor"]
    /\ UNCHANGED <<call, patched, activeSessionId, cachedLoad, forceWasmNext, gpu,
                   calls, forcedDuringLoad, lastForced, fetchVars>>

\* init(): the processor has loaded; setReady, reset the flag, resolve
LoadReady(l) ==
    /\ loads[l].pc = "processor"
    /\ state' = setReady(state, loads[l].sessionId)
    /\ emitted' = Accepts(state, loads[l].sessionId)
    /\ forceWasmNext' = FALSE
    /\ loads' = [loads EXCEPT ![l].pc = "done"]
    /\ UNCHANGED <<call, patched, activeSessionId, cachedLoad, gpu, calls,
                   forcedDuringLoad, lastForced, fetchVars>>

\* init(): catch (e) after the model or the processor load rejected
LoadFailed(l) ==
    /\ loads[l].pc \in {"model", "processor"}
    /\ cachedLoad' = Null
    /\ state' = setError(state, activeSessionId, "load failed")
    /\ emitted' = Accepts(state, activeSessionId)
    /\ loads' = [loads EXCEPT ![l].pc = "failed"]
    /\ UNCHANGED <<call, patched, activeSessionId, forceWasmNext, gpu, calls,
                   forcedDuringLoad, lastForced, fetchVars>>

(* ---------------------------- fetch cache ------------------------------ *)
\* URLs containing ONNX_PATH_HINT
Urls == {"/onnx/model.onnx", "/onnx/model_fp16.onnx"}

\* URLs without ONNX_PATH_HINT that the page fetches as well
OtherUrls == {"/api/data"}

\* URLs containing ONNX_PATH_HINT that the server has no artifact for
MissingUrls == {"/onnx/missing.onnx"}

\* the test of the URL answering true for every URL
MatchesAnyUrl(url) == TRUE

\* url.includes(ONNX_PATH_HINT)
MatchesHint(url) == url \in Urls \cup MissingUrls

\* res.status: a missing artifact is answered with 404 and an error page
\* as body, every other URL with 200
NotFound == 404
Ok == 200
Statuses(url) == IF url \in MissingUrls THEN {NotFound} ELSE {Ok}

\* what the server streams for a URL: a sequence of chunks of bytes
Content(url) ==
    IF url = "/onnx/model.onnx" THEN << <<1, 2>>, <<3>> >> ELSE << <<4>> >>

\* chunks.reduce((s, c) => s + c.byteLength, 0)
RECURSIVE ByteLength(_)
ByteLength(chunks) ==
    IF chunks = <<>> THEN 0 ELSE Len(Head(chunks)) + ByteLength(Tail(chunks))

\* merged.set(c, off) for each chunk: byte i of the merged buffer
RECURSIVE ByteAt(_, _)
ByteAt(chunks, i) ==
    IF i <= Len(Head(chunks)) THEN Head(chunks)[i]
    ELSE ByteAt(Tail(chunks), i - Len(Head(chunks)))

\* merged.set(c, 0) for each chunk: every chunk written at the start
MergeAtOffsetZero(chunks) == [i \in 1..ByteLength(chunks) |-> ByteAt(chunks, 1)]

\* const merged = new Uint8Array(totalLen), filled chunk after chunk
Merge(chunks) == [i \in 1..ByteLength(chunks) |-> ByteAt(chunks, i)]

\* Number(res.headers.get("content-length") || 0): the first URL is served
\* with the header, the second without
Totals(url) ==
    IF url = "/onnx/model.onnx" THEN {ByteLength(Content(url))} ELSE {0}

\* The percent is computed in IEEE 754 double precision: loaded / total is
\* rounded to 53 significant bits, the product with 100 is rounded again,
\* and Math.floor is taken of that. The roundings matter only where
\* loaded * 100 / total is a whole number k: when the quotient was rounded
\* down and the product stays more than half a unit in the last place
\* below k, the floor is k - 1. The operators below decide this exactly
\* with small integers.

\* bits of a double's significand
SignificandBits == 53

\* for 0 < loaded < total: the s with 2^(-s) <= loaded / total < 2^(1-s)
RECURSIVE BinaryShift(_, _)
BinaryShift(loaded, total) ==
    IF loaded >= total THEN 0 ELSE 1 + BinaryShift(2 * loaded, total)

\* 2^p modulo t
RECURSIVE Pow2Mod(_, _)
Pow2Mod(p, t) == IF p = 0 THEN 1 % t ELSE (2 * Pow2Mod(p - 1, t)) % t

\* what loaded / total leaves beyond the rounded quotient's last bit, in
\* units of 1/total of that bit
QuotientRemainder(loaded, total) ==
    (loaded * Pow2Mod(SignificandBits - 1 + BinaryShift(loaded, total), total)) % total

\* the j with 2^(j-1) < k <= 2^j
RECURSIVE CeilLog2(_)
CeilLog2(k) == IF k <= 1 THEN 0 ELSE 1 + CeilLog2((k + 1) \div 2)

\* Math.floor((loaded / total) * 100) for 0 < loaded < total
FloorOfPercent(loaded, total) ==
    LET k == (loaded * 100) \div total
        rho == QuotientRemainder(loaded, total)
    IN  IF (loaded * 100) % total # 0 THEN k
        ELSE IF rho = 0 \/ 2 * rho > total THEN k
        ELSE IF 400 * rho > total * 2^(CeilLog2(k) + BinaryShift(loaded, total))
             THEN k - 1
        ELSE k

\* Math.min(99, Math.floor((loaded / total) * 100))
DownloadPercent(loaded, total) ==
    IF loaded >= total THEN 99
    ELSE IF loaded = 0 THEN 0
    ELSE Min2(99, FloorOfPercent(loaded, total))

\* content-length values and chunk lengths of the downloads whose byte
\* counts alone are followed
PercentTotals == {0, 3, 50, 100}
ChunkLengths == {1, 21, 29, 50}

\* one download followed by its byte counts: setNetworkProgress(0) has been
\* called and the response headers are in
NewPercent(total) ==
    [total |-> total, loaded |-> 0, chunks |-> 0, done |-> FALSE, reported |-> 0]

\* pull(): a chunk of some length has been read, counted and reported
ChunkCounted ==
    /\ ~pct.done
    /\ pct.chunks < MaxChunks
    /\ \E n \in ChunkLengths :
          pct' = IF pct.total > 0
                 THEN [pct EXCEPT !.chunks = @ + 1,
                                  !.loaded = @ + n,
                                  !.reported = DownloadPercent(pct.loaded + n, pct.total)]
                 ELSE [pct EXCEPT !.chunks = @ + 1]

\* pull(): the stream is done: setNetworkProgress(99, activeSessionId)
DoneCounted ==
    /\ ~pct.done
    /\ pct' = [pct EXCEPT !.done = TRUE, !.reported = 99]

\* Map.delete and Map.set
MapDelete(map, key) == [k \in (DOMAIN map) \ {key} |-> map[k]]
MapSet(map, key, value) ==
    [k \in (DOMAIN map) \cup {key} |-> IF k = key THEN value ELSE map[k]]

\* memCache.has(url) answering false whatever the cache holds
NeverCached(cache, url) == FALSE

\* memCache.has(url)
HasCached(cache, url) == url \in DOMAIN cache

NewFetch(url, pc, promise, body) ==
    [url |-> url, pc |-> pc, promise |-> promise, total |-> 0,
     chunks |-> <<>>, body |-> body,
     status |-> Ok]  \* of the Response handed to the caller, once it is

\* window.fetch(resource), up to its first await
Fetch(url) ==
    /\ patched
    /\ IF ~MatchesHint(url)
       THEN /\ netCalls' = [netCalls EXCEPT ![url] = @ + 1]
            /\ fetches' = Append(fetches, NewFetch(url, "passthrough", Null, <<>>))
            /\ emitted' = FALSE
            /\ UNCHANGED state
       ELSE IF HasCached(memCache, url)
       THEN /\ state' = setNetworkProgress(state, 9900, activeSessionId)
            /\ emitted' = Accepts(state, activeSessionId)
            /\ fetches' = Append(fetches, NewFetch(url, "done", Null, memCache[url]))
            /\ UNCHANGED netCalls
       ELSE IF url \in DOMAIN inflight
       THEN /\ fetches' = Append(fetches, NewFetch(url, "waiting", inflight[url], <<>>))
            /\ emitted' = FALSE
            /\ UNCHANGED <<state, netCalls>>
       ELSE /\ state' = setNetworkProgress(state, 0, activeSessionId)
            /\ emitted' = Accepts(state, activeSessionId)
            /\ netCalls' = [netCalls EXCEPT ![url] = @ + 1]
            /\ fetches' = Append(fetches, NewFetch(url, "headers", Null, <<>>))
    /\ UNCHANGED <<call, loaderVars, inflight, memCache>>

\* a request passed through: originalFetch() has settled, and its response
\* or its rejection is what the caller gets
FetchPassed(r) ==
    /\ fetches[r].pc = "passthrough"
    /\ \/ fetches' = [fetches EXCEPT ![r].pc = "passed",
                                      ![r].body = Merge(Content(fetches[r].url))]
       \/ fetches' = [fetches EXCEPT ![r].pc = "failed"]
    /\ emitted' = FALSE
    /\ UNCHANGED <<state, call, loaderVars, inflight, memCache, netCalls>>

\* originalFetch() has resolved with a body: the promise is created and registered
FetchHeaders(r) ==
    /\ fetches[r].pc = "headers"
    /\ \E total \in Totals(fetches[r].url), status \in Statuses(fetches[r].url) :
           fetches' = [fetches EXCEPT ![r].pc = "streaming", ![r].total = total,
                                      ![r].promise = r, ![r].status = status]
    /\ inflight' = MapSet(inflight, fetches[r].url, r)
    /\ emitted' = FALSE
    /\ UNCHANGED <<state, call, loaderVars, memCache, netCalls>>

\* originalFetch() has resolved without a body: if (!res.body) return res
FetchNoBody(r) ==
    /\ fetches[r].pc = "headers"
    /\ \E status \in Statuses(fetches[r].url) :
           fetches' = [fetches EXCEPT ![r].pc = "nobody", ![r].status = status]
    /\ emitted' = FALSE
    /\ UNCHANGED <<state, call, loaderVars, inflight, memCache, netCalls>>

\* originalFetch() has rejected: the wrapper's promise rejects
FetchRejected(r) ==
    /\ fetches[r].pc = "headers"
    /\ fetches' = [fetches EXCEPT ![r].pc = "failed"]
    /\ emitted' = FALSE
    /\ UNCHANGED <<state, call, loaderVars, inflight, memCache, netCalls>>

\* pull(): reader.read() gave a chunk
PullChunk(r) ==
    /\ fetches[r].pc = "streaming"
    /\ Len(fetches[r].chunks) < Len(Content(fetches[r].url))
    /\ LET value == Content(fetches[r].url)[Len(fetches[r].chunks) + 1]
           chunks == Append(fetches[r].chunks, value)
           total == fetches[r].total
       IN /\ fetches' = [fetches EXCEPT ![r].chunks = chunks,
                                        ![r].body = @ \o value]
          /\ IF total > 0
             THEN /\ state' = setNetworkProgress(state,
                                 100 * DownloadPercent(ByteLength(chunks), total),
                                 activeSessionId)
                  /\ emitted' = Accepts(state, activeSessionId)
             ELSE /\ emitted' = FALSE
                  /\ UNCHANGED state
    /\ UNCHANGED <<call, loaderVars, inflight, memCache, netCalls>>

\* pull(): reader.read() gave done
PullDone(r) ==
    /\ fetches[r].pc = "streaming"
    /\ Len(fetches[r].chunks) = Len(Content(fetches[r].url))
    /\ state' = setNetworkProgress(state, 9900, activeSessionId)
    /\ emitted' = Accepts(state, activeSessionId)
    /\ memCache' = MapSet(memCache, fetches[r].url, Merge(fetches[r].chunks))
    /\ inflight' = MapDelete(inflight, fetches[r].url)
    /\ fetches' = [fetches EXCEPT ![r].pc = "done"]
    /\ UNCHANGED <<call, loaderVars, netCalls>>

\* pull(): reader.read() rejected: catch (e)
PullFailed(r) ==
    /\ fetches[r].pc = "streaming"
    /\ inflight' = MapDelete(inflight, fetches[r].url)
    /\ state' = setError(state, activeSessionId, "stream failed")
    /\ emitted' = Accepts(state, activeSessionId)
    /\ fetches' = [fetches EXCEPT ![r].pc = "failed"]
    /\ UNCHANGED <<call, loaderVars, memCache, netCalls>>

\* cancel(reason) of the tracked stream: reader.cancel(reason), and nothing
\* else: pull is not called again, bufPromise stays pending and the
\* in-flight entry stays
FetchCancel(r) ==
    /\ fetches[r].pc = "streaming"
    /\ fetches' = [fetches EXCEPT ![r].pc = "cancelled"]
    /\ emitted' = FALSE
    /\ UNCHANGED <<state, call, loaderVars, inflight, memCache, netCalls>>

\* start() of a joined request: await bufPromise has settled
JoinSettled(r) ==
    /\ fetches[r].pc = "waiting"
    /\ LET owner == fetches[fetches[r].promise]
       IN \/ /\ owner.pc = "done"
             /\ fetches' = [fetches EXCEPT ![r].pc = "done",
                                           ![r].body = Merge(owner.chunks)]
          \/ /\ owner.pc = "failed"
             /\ fetches' = [fetches EXCEPT ![r].pc = "failed"]
    /\ emitted' = FALSE
    /\ UNCHANGED <<state, call, loaderVars, inflight, memCache, netCalls>>

(* ------------------------------ listeners ------------------------------ *)
\* the functions passed to subscribe; "bad" throws whenever it is called
ListenerFns == {"f", "bad"}
Throwing == {"bad"}

\* percent arguments of setNetworkProgress while listeners are observed:
\* -5, 10, 55.5 and 99
ListenerPercents == {-500, 1000, 5550, 9900}

\* Set.add and Set.delete on a Set, kept in its insertion order
SetAdd(ls, l) == IF \E i \in DOMAIN ls : ls[i] = l THEN ls ELSE Append(ls, l)
SetDelete(ls, l) == SelectSeq(ls, LAMBDA x : x # l)

\* one call listener(this.state): the state passed, whether subscribe or
\* emit made the call, and the number of accepted operations so far
Delivery(st, cause, n) == [state |-> st, cause |-> cause, at |-> n]

\* listener(this.state) with no try around it: a throw leaves the caller
CallEscapesUncaught(l) == l \in Throwing

\* try { listener(this.state); } catch {}: no throw leaves the caller
CallEscapes(l) == FALSE

\* for (const l of this.listeners) { try { l(this.state); } catch {} }
RECURSIVE emit(_, _, _, _, _)
emit(ls, i, st, rec, n) ==
    IF i > Len(ls) THEN [received |-> rec, escaped |-> FALSE]
    ELSE LET rec2 == [rec EXCEPT ![ls[i]] = Append(@, Delivery(st, "emit", n))]
         IN  IF CallEscapes(ls[i])
             THEN [received |-> rec2, escaped |-> TRUE]
             ELSE emit(ls, i + 1, st, rec2, n)

\* the emit() of the broadcaster method called in this step, if it ran
Notify ==
    /\ IF emitted'
       THEN LET out == emit(listeners, 1, state', received, Len(ops) + 1)
            IN  /\ ops' = Append(ops, call')
                /\ received' = out.received
                /\ escaped' = out.escaped
       ELSE /\ UNCHANGED <<ops, received>>
            /\ escaped' = FALSE
    /\ UNCHANGED <<listeners, handles>>

\* subscribe(listener): add, replay the current state, return the closure
subscribe(l) ==
    /\ listeners' = SetAdd(listeners, l)
    /\ received' = [received EXCEPT ![l] =
                       Append(@, Delivery(state, "replay", Len(ops)))]
    /\ escaped' = CallEscapes(l)
    /\ handles' = Append(handles, [listener |-> l, at |-> Len(ops), calls |-> 0,
                                   returned |-> ~CallEscapes(l)])
    /\ call' = [op |-> "subscribe", listener |-> l]
    /\ emitted' = FALSE
    /\ UNCHANGED <<state, ops>>

\* the closure returned by subscribe: this.listeners.delete(listener)
unsubscribe(h) ==
    /\ handles[h].returned
    /\ listeners' = SetDelete(listeners, handles[h].listener)
    /\ handles' = [handles EXCEPT ![h].calls = @ + 1]
    /\ call' = [op |-> "unsubscribe", handle |-> h]
    /\ emitted' = FALSE
    /\ escaped' = FALSE
    /\ UNCHANGED <<state, received, ops>>

(* ------------------------- compositing engine -------------------------- *)
\* rows per strip in the compositor worker and in the main-thread fallback
H_CHUNK == 512

\* strip heights the loop is run with: the program's own, and small ones
\* that make an image of a few rows span several strips
StripHeights == {1, 2, H_CHUNK}

\* <<width, height, strip height>> of the composited calls: every width
\* and height up to MaxDim with every strip height, and one image of a
\* single column, one row taller than a strip of the program
ComposeInputs ==
    ((1..MaxDim) \X (1..MaxDim) \X StripHeights) \cup {<<1, H_CHUNK + 1, H_CHUNK>>}

\* masks the model produces: a ramp whose neighbouring values differ, so
\* that a wrong index shows, and the uniform 128 mask
MaskKinds == {"ramp", "solid"}
Mask(kind, n) ==
    [i \in 1..n |-> IF kind = "solid" THEN 128 ELSE ((i - 1) * 37 + 11) % 256]

\* RGBA bytes of image.toCanvas() drawn on a surface, row-major, indexed
\* from 0 as ImageData.data is; the decoded image is opaque
SourceRGBA(width, height) ==
    [k \in 0..(4 * width * height - 1) |->
        IF k % 4 = 3 THEN 255 ELSE (k * 7 + 13) % 256]

\* alpha[i] of a Uint8Array: undefined beyond its length, which is 0 once
\* its buffer has been transferred away
NoByte == 0 - 1
AlphaAt(alpha, i) == IF i < Len(alpha) THEN alpha[i + 1] ELSE NoByte

\* storing into a Uint8ClampedArray: undefined is stored as 0
ToUint8Clamped(v) == IF v = NoByte THEN 0 ELSE v

\* the view transferred away by postMessage
Detached == <<>>

\* ctx.getImageData(0, y0, width, h).data
getImageData(surface, width, y0, h) ==
    [k \in 0..(4 * width * h - 1) |-> surface[4 * width * y0 + k]]

\* ctx.putImageData(strip, 0, y0)
putImageData(surface, data, width, y0, h) ==
    [k \in DOMAIN surface |->
        IF k >= 4 * width * y0 /\ k < 4 * width * (y0 + h)
        THEN data[k - 4 * width * y0]
        ELSE surface[k]]

\* rowStartAlpha of the loops, with the strip offset left out
AlphaRowStartOfFirstStrip(y0, row, width) == row * width

\* start + row * width, with start = y0 * width
AlphaRowStart(y0, row, width) == y0 * width + row * width

\* the two inner loops: data[rowStartRGBA + x * 4 + 3] = alpha[rowStartAlpha + x]
SetStripAlpha(data, alpha, width, y0, h) ==
    LET Target(row, x) == row * width * 4 + x * 4 + 3
        Cells == (0..(h - 1)) \X (0..(width - 1))
    IN  [k \in DOMAIN data |->
            IF \E c \in Cells : Target(c[1], c[2]) = k
            THEN LET c == CHOOSE c \in Cells : Target(c[1], c[2]) = k
                 IN  ToUint8Clamped(AlphaAt(alpha, AlphaRowStart(y0, c[1], width) + c[2]))
            ELSE data[k]]

\* a drawing surface with, per row, how often the loop read it and wrote it
NewCanvas(width, height) ==
    [surface |-> SourceRGBA(width, height),
     reads   |-> [y \in 0..(height - 1) |-> 0],
     writes  |-> [y \in 0..(height - 1) |-> 0]]

NoCanvas == [surface |-> <<>>, reads |-> <<>>, writes |-> <<>>]

\* for (let y0 = 0; y0 < height; y0 += H_CHUNK) { ... }
RECURSIVE StripLoop(_, _, _, _, _, _)
StripLoop(canvas, alpha, width, height, hChunk, y0) ==
    IF y0 >= height THEN canvas
    ELSE LET h == Min2(hChunk, height - y0)
             strip == getImageData(canvas.surface, width, y0, h)
             data == SetStripAlpha(strip, alpha, width, y0, h)
             Touched(count) ==
                 [y \in DOMAIN count |->
                     IF y >= y0 /\ y < y0 + h THEN count[y] + 1 ELSE count[y]]
         IN  StripLoop([surface |-> putImageData(canvas.surface, data, width, y0, h),
                        reads   |-> Touched(canvas.reads),
                        writes  |-> Touched(canvas.writes)],
                       alpha, width, height, hChunk, y0 + hChunk)

\* the check removed: every mask passes
MaskNeverMismatches(alpha, width, height) == FALSE

\* alpha.length !== originalWidth * originalHeight
MaskMismatch(alpha, width, height) == Len(alpha) # width * height

\* if (!width || !height || !bitmap) of the worker
InvalidComposeArguments(msg) ==
    msg.width = 0 \/ msg.height = 0 \/ msg.bitmap = "none"

\* lengths maskRaw.resize() may return for a width x height image
ResizedLengths(width, height) ==
    {n \in {width * height - 1, width * height, width * height + 1} : n >= 0}

\* alphaLength missing from a compose message
NoLength == 0 - 1

\* new Uint8Array(alphaBuffer, alphaByteOffset, alphaLength) throws a
\* RangeError when the buffer is shorter than the length asked for
ViewOutOfRange(msg) == msg.alphaLength > Len(msg.alpha)

\* new Uint8Array(alphaBuffer, alphaByteOffset, alphaLength): the view the
\* worker reads, the whole buffer when alphaLength is undefined
AlphaView(msg) ==
    IF msg.alphaLength = NoLength THEN msg.alpha
    ELSE SubSeq(msg.alpha, 1, msg.alphaLength)

\* if (alpha.length !== alphaLength)
AlphaLengthMismatch(msg) == Len(AlphaView(msg)) # msg.alphaLength

\* the try block throws before the canvas is made
ComposeRejected(msg) ==
    \/ InvalidComposeArguments(msg)
    \/ ViewOutOfRange(msg)
    \/ AlphaLengthMismatch(msg)

NoMessage == [width |-> 0, height |-> 0, alpha |-> <<>>, alphaLength |-> 0,
              bitmap |-> "none"]

\* one removeBackground() call, from the point where inference has returned
NewJob(width, height, hChunk, kind) ==
    [pc       |-> "inferred",
     url      |-> "blob:image", \* the locator the call was given
     load     |-> Null,      \* the load whose promise init() returned
     width    |-> width,
     height   |-> height,
     hChunk   |-> hChunk,
     kind     |-> kind,
     alpha    |-> <<>>,      \* mask.data as the main thread reads it
     maskLength |-> 0,       \* alpha.length when resize() returned
     bitmap   |-> "none",    \* none, open, transferred, closed
     worker   |-> "none",    \* none, module, inline, terminated
     msg      |-> NoMessage, \* the compose message in the worker's hands
     reply    |-> "none",    \* message posted by the worker: result, error
     wcanvas  |-> NoCanvas,  \* the worker's OffscreenCanvas
     canvas   |-> NoCanvas,  \* the fallback's canvas
     path     |-> "none",    \* where the result was composited
     error    |-> "none"]

\* the locators removeBackground() is called with
ImageUrls == {"", "blob:image"}

\* removeBackground() without the check of its argument
EmptyUrlNever(url) == FALSE

\* if (!url)
EmptyUrl(url) == url = ""

\* removeBackground(url), up to the await of init()
removeBackground(url) ==
    /\ rb.pc = "none"
    /\ IF EmptyUrl(url)
       THEN /\ rb' = [rb EXCEPT !.url = url, !.pc = "rejected",
                                !.error = "URL is empty"]
            /\ emitted' = FALSE
            /\ UNCHANGED <<state, call, loaderVars, fetchVars>>
       ELSE /\ init
            /\ rb' = [rb EXCEPT !.url = url, !.pc = "init",
                                !.load = calls'[Len(calls')]]
    /\ UNCHANGED pv

\* await init() has resolved; RawImage.fromURL, the processor and the model
\* are awaited next
RbSession ==
    /\ rb.pc = "init"
    /\ loads[rb.load].pc = "done"
    /\ rb' = [rb EXCEPT !.pc = "inference"]

\* await init() has rejected
RbInitFailed ==
    /\ rb.pc = "init"
    /\ loads[rb.load].pc = "failed"
    /\ rb' = [rb EXCEPT !.pc = "rejected", !.error = "load failed"]

\* the image has been decoded and the model has produced its output
RbInferred ==
    /\ rb.pc = "inference"
    /\ \E size \in ComposeInputs, kind \in MaskKinds :
          rb' = [NewJob(size[1], size[2], size[3], kind)
                    EXCEPT !.url = rb.url, !.load = rb.load]

\* decoding the image or running the processor or the model has rejected
RbInferenceFailed ==
    /\ rb.pc = "inference"
    /\ rb' = [rb EXCEPT !.pc = "rejected", !.error = "inference failed"]

\* const mask = await maskRaw.resize(...); the length check; then, in the
\* try block, image.toCanvas() and the call of createImageBitmap
MaskResized ==
    /\ rb.pc = "inferred"
    /\ \E n \in ResizedLengths(rb.width, rb.height) :
        LET alpha == Mask(rb.kind, n)
        IN  IF MaskMismatch(alpha, rb.width, rb.height)
            THEN rb' = [rb EXCEPT !.alpha = alpha, !.maskLength = n,
                                  !.pc = "rejected",
                                  !.error = "Mask size mismatch"]
            ELSE rb' = [rb EXCEPT !.alpha = alpha, !.maskLength = n,
                                  !.pc = "bitmap"]

\* the main-thread fallback up to its first await: canvas, drawImage, the
\* strip loop over the main thread's view of the mask, canvas.toBlob
Fallback(j) ==
    [j EXCEPT !.pc = "fallback",
              !.canvas = StripLoop(NewCanvas(j.width, j.height), j.alpha,
                                   j.width, j.height, j.hChunk, 0)]

\* createImageBitmap rejects: the catch block runs the fallback
BitmapFailed ==
    /\ rb.pc = "bitmap"
    /\ rb' = Fallback(rb)

\* createImageBitmap resolves and composeOffMainThread runs: a worker is
\* created (the module worker, or the inline one when that throws), its
\* handlers are set, and postMessage transfers alpha.buffer and the bitmap
Offload ==
    /\ rb.pc = "bitmap"
    /\ \E w \in {"module", "inline"} :
        rb' = [rb EXCEPT !.pc = "offloaded",
                         !.worker = w,
                         !.msg = [width |-> rb.width, height |-> rb.height,
                                  alpha |-> rb.alpha, alphaLength |-> Len(rb.alpha),
                                  bitmap |-> "open"],
                         !.alpha = Detached,
                         !.bitmap = "transferred"]

\* createImageBitmap resolves, but both Worker constructors throw: the
\* promise rejects with nothing transferred and the fallback runs
WorkerUnavailable ==
    /\ rb.pc = "bitmap"
    /\ rb' = [Fallback(rb) EXCEPT !.bitmap = "open"]

\* self.onmessage of the worker up to its first await: validation, canvas,
\* drawImage, the strip loop, convertToBlob; a throw posts {type:'error'}
WorkerCompose ==
    /\ rb.pc = "offloaded"
    /\ \E canvasOk \in BOOLEAN :
        IF ComposeRejected(rb.msg) \/ ~canvasOk
        THEN rb' = [rb EXCEPT !.pc = "replied", !.reply = "error"]
        ELSE rb' = [rb EXCEPT !.pc = "encoding",
                              !.wcanvas = StripLoop(NewCanvas(rb.msg.width, rb.msg.height),
                                                    AlphaView(rb.msg), rb.msg.width,
                                                    rb.msg.height, rb.hChunk, 0)]

\* both convertToBlob calls resolve: bitmap.close(), {type:'result'}
WorkerEncoded ==
    /\ rb.pc = "encoding"
    /\ rb' = [rb EXCEPT !.pc = "replied", !.reply = "result", !.bitmap = "closed"]

\* a convertToBlob call rejects: the catch posts {type:'error'}
WorkerEncodeFailed ==
    /\ rb.pc = "encoding"
    /\ rb' = [rb EXCEPT !.pc = "replied", !.reply = "error"]

\* worker.onmessage with {type:'result'}: terminate, resolve; then
\* removeBackground makes the locators
OnWorkerResult ==
    /\ rb.pc = "replied" /\ rb.reply = "result"
    /\ rb' = [rb EXCEPT !.pc = "done", !.worker = "terminated", !.path = "worker"]

\* worker.onmessage with {type:'error'}: terminate, reject; the catch block
\* of removeBackground runs the fallback
OnWorkerError ==
    /\ rb.pc = "replied" /\ rb.reply = "error"
    /\ rb' = Fallback([rb EXCEPT !.worker = "terminated"])

\* worker.onerror (the worker script fails to load or throws outside its
\* handler): terminate, reject; the catch block runs the fallback
OnWorkerErrorEvent ==
    /\ rb.pc = "offloaded"
    /\ rb' = Fallback([rb EXCEPT !.worker = "terminated"])

\* canvas.toBlob and the preview's toBlob call back with blobs
FallbackEncoded ==
    /\ rb.pc = "fallback"
    /\ rb' = [rb EXCEPT !.pc = "done", !.path = "fallback"]

\* a toBlob calls back with null: removeBackground rejects
FallbackEncodeFailed ==
    /\ rb.pc = "fallback"
    /\ rb' = [rb EXCEPT !.pc = "rejected", !.error = "toBlob failed"]

(* ------------------------------ preview -------------------------------- *)
\* previewMax of the compose message, and maxPreview of the fallback
PreviewMax == 450

\* widths and heights the preview size is computed for: the small ones, the
\* sides around previewMax and its double, the 3000 x 1500 image, and
\* 213 x 852, whose scaled width is exactly 112.5
PreviewSides ==
    (1..MaxSide) \cup {213, 449, 450, 451, 852, 899, 900, 901, 1500, 3000}

\* Math.min(1, previewMax / maxSide) as a fraction <<numerator, denominator>>,
\* with the cap at 1 left out
PreviewScaleUncapped(previewMax, maxSide) == <<previewMax, maxSide>>

\* Math.min(1, previewMax / maxSide) as a fraction <<numerator, denominator>>
PreviewScale(previewMax, maxSide) ==
    IF previewMax >= maxSide THEN <<1, 1>> ELSE <<previewMax, maxSide>>

\* Math.round(side * scale) for side >= 0: the nearest integer, halves going
\* up. The product is a double: when side * scale is exactly k + 1/2 the
\* double may lie just below it, and Math.round then gives k (tieDown)
RoundScaled(side, scale, tieDown) ==
    LET num == side * scale[1]
        den == scale[2]
        q == num \div den
        r == num % den
    IN  IF 2 * r > den THEN q + 1
        ELSE IF 2 * r < den THEN q
        ELSE IF tieDown THEN q ELSE q + 1

\* pW and pH of the worker
WorkerPreviewSize(width, height, previewMax, tieDown) ==
    LET maxSide == Max2(width, height)
        scale == PreviewScale(previewMax, maxSide)
    IN  <<Max2(1, RoundScaled(width, scale, tieDown)),
          Max2(1, RoundScaled(height, scale, tieDown))>>

\* previewCanvas.width and previewCanvas.height of the fallback
FallbackPreviewSize(originalWidth, originalHeight, tieDown) ==
    LET maxPreview == PreviewMax
        previewScale ==
            IF maxPreview >= Max2(originalWidth, originalHeight)
            THEN <<1, 1>>
            ELSE <<maxPreview, Max2(originalWidth, originalHeight)>>
    IN  <<Max2(1, RoundScaled(originalWidth, previewScale, tieDown)),
          Max2(1, RoundScaled(originalHeight, previewScale, tieDown))>>

NotComputed == <<0, 0>>

\* an image about to be composited, and which way the doubles of this
\* image fall at an exact half
NewPreview(width, height, tieDown) ==
    [width |-> width, height |-> height, tieDown |-> tieDown,
     worker |-> NotComputed, fallback |-> NotComputed]

NoPreview == NewPreview(0, 0, FALSE)

\* the worker builds the preview
WorkerPreview ==
    /\ pv.width > 0
    /\ pv.worker = NotComputed
    /\ pv' = [pv EXCEPT !.worker =
                 WorkerPreviewSize(pv.width, pv.height, PreviewMax, pv.tieDown)]

\* the fallback builds the preview
FallbackPreview ==
    /\ pv.width > 0
    /\ pv.fallback = NotComputed
    /\ pv' = [pv EXCEPT !.fallback =
                 FallbackPreviewSize(pv.width, pv.height, pv.tieDown)]

(* --------------------------- capability probe -------------------------- *)
\* an adapter by its feature set: it has shader-f16, it has not, or reading
\* adapter.features throws
Adapters == {"f16", "plain", "broken"}

\* the environments a probe may run in
Environments ==
    [gpu       : BOOLEAN,                               \* navigator.gpu is defined
     backend   : {"missing", "undefined"} \cup Adapters, \* env.backends.webgpu?.adapter
                                                        \* ("missing": env.backends is undefined)
     requested : {"rejects", "null"} \cup Adapters]      \* what gpu.requestAdapter() settles with

Thrown == [device |-> "thrown", dtype |-> "thrown"]
NotProbed == [device |-> "pending", dtype |-> "pending"]

\* getCapabilities(): the body of the try block
getCapabilitiesTry(env) ==
    IF ~env.gpu THEN [device |-> "wasm", dtype |-> "fp32"]
    ELSE IF env.requested = "rejects" THEN Thrown
    ELSE IF env.requested = "null" THEN [device |-> "wasm", dtype |-> "fp32"]
    ELSE IF env.requested = "broken" THEN Thrown
    ELSE IF env.requested = "f16" THEN [device |-> "webgpu", dtype |-> "fp16"]
    ELSE [device |-> "webgpu", dtype |-> "fp32"]

\* getCapabilities() without its catch block
getCapabilitiesUncaught(env) == getCapabilitiesTry(env)

\* getCapabilities(): catch { return { device: 'wasm', dtype: 'fp32' } }
getCapabilities(env) ==
    IF getCapabilitiesTry(env) = Thrown
    THEN [device |-> "wasm", dtype |-> "fp32"]
    ELSE getCapabilitiesTry(env)

\* checkWebGPUCapabilities(): the adapter whose features the try block reads,
\* "none" where it returns early and "thrown" where a step throws
AdapterOfferTry(env) ==
    IF ~env.gpu THEN "none"
    ELSE IF env.backend = "missing" THEN "thrown"
    ELSE LET adapter == IF env.backend # "undefined" THEN env.backend
                        ELSE env.requested
         IN  IF adapter = "rejects" THEN "thrown"
             ELSE IF adapter = "null" THEN "none"
             ELSE IF adapter = "broken" THEN "thrown"
             ELSE adapter

\* checkWebGPUCapabilities(): what the probe finds the environment to offer
\* ("none", "fp32" or "fp16"); the catch block answers like no adapter
AdapterOffer(env) ==
    IF AdapterOfferTry(env) \in {"none", "thrown"} THEN "none"
    ELSE IF AdapterOfferTry(env) = "f16" THEN "fp16" ELSE "fp32"

NoCapabilities == [hasWebGPU |-> FALSE, hasFP16 |-> FALSE]
NewProbe(env) ==
    [env |-> env, returned |-> {}, capabilities |-> NotProbed, check |-> NoCapabilities]
NoProbe == NewProbe([gpu |-> FALSE, backend |-> "undefined", requested |-> "null"])

\* a call of getCapabilities() runs to its return
GetCapabilities ==
    /\ "getCapabilities" \notin probe.returned
    /\ probe' = [probe EXCEPT !.returned = @ \cup {"getCapabilities"},
                              !.capabilities = getCapabilities(probe.env)]

\* a call of checkWebGPUCapabilities() runs to its return
CheckWebGPUCapabilities ==
    /\ "checkWebGPUCapabilities" \notin probe.returned
    /\ probe' = [probe EXCEPT !.returned = @ \cup {"checkWebGPUCapabilities"},
                              !.check = checkWebGPUCapabilities(AdapterOffer(probe.env))]

\* no download is followed by its byte counts
NoPercent == NewPercent(0)

(* --------------------------- specifications ---------------------------- *)
InitCommon ==
    /\ state = InitialState
    /\ emitted = FALSE
    /\ call = NoCall
    /\ patched = FALSE
    /\ activeSessionId = 0
    /\ cachedLoad = Null
    /\ forceWasmNext = FALSE
    /\ loads = <<>>
    /\ calls = <<>>
    /\ forcedDuringLoad = FALSE
    /\ lastForced = FALSE
    /\ fetches = <<>>
    /\ inflight = <<>>
    /\ memCache = <<>>
    /\ netCalls = [url \in Urls \cup MissingUrls \cup OtherUrls |-> 0]

\* no removeBackground() call is being composited
NoJob == [NewJob(0, 0, H_CHUNK, "solid") EXCEPT !.pc = "none"]
NoComposition == rb = NoJob /\ pv = NoPreview

\* nobody has subscribed
NoListeners ==
    /\ listeners = <<>>
    /\ received = [l \in ListenerFns |-> <<>>]
    /\ handles = <<>>
    /\ ops = <<>>
    /\ escaped = FALSE

\* no capability probe and no percent computation is looked at
NoPure == probe = NoProbe /\ pct = NoPercent

Init == gpu = "fp16" /\ InitCommon /\ NoComposition /\ NoListeners /\ NoPure

LoadStep ==
    \/ forceWASMMode
    \/ \E l \in DOMAIN loads : LoadProbed(l)
    \/ \E l \in DOMAIN loads : LoadModelLoaded(l)
    \/ \E l \in DOMAIN loads : LoadReady(l)
    \/ \E l \in DOMAIN loads : LoadFailed(l)

FetchStep ==
    \/ \E r \in DOMAIN fetches : FetchHeaders(r)
    \/ \E r \in DOMAIN fetches : FetchNoBody(r)
    \/ \E r \in DOMAIN fetches : FetchRejected(r)
    \/ \E r \in DOMAIN fetches : PullChunk(r)
    \/ \E r \in DOMAIN fetches : PullDone(r)
    \/ \E r \in DOMAIN fetches : PullFailed(r)
    \/ \E r \in DOMAIN fetches : FetchCancel(r)
    \/ \E r \in DOMAIN fetches : JoinSettled(r)

\* the whole program: loader, patched fetch and broadcaster, on a machine
\* that offers WebGPU with shader-f16
Next ==
    /\ \/ Len(calls) < MaxInits /\ init
       \/ LoadStep
       \/ Len(fetches) < MaxFetches /\ \E url \in Urls : Fetch(url)
       \/ FetchStep
    /\ UNCHANGED <<composeVars, listenerVars, pureVars>>

Spec == Init /\ [][Next]_vars

\* the loader and the broadcaster on every kind of machine, while nothing
\* requests a matching URL (the fetch cache never writes a loader variable)
InitLoader ==
    gpu \in {"none", "fp32", "fp16"} /\ InitCommon /\ NoComposition /\ NoListeners
    /\ NoPure

NextLoader ==
    /\ \/ Len(calls) < MaxCalls /\ init
       \/ LoadStep
    /\ UNCHANGED <<composeVars, listenerVars, pureVars>>

SpecLoader == InitLoader /\ [][NextLoader]_vars

\* the patched fetch while the loads that patched it are still pending
NextFetch ==
    /\ \/ Len(calls) < MaxFetchInits /\ init
       \/ forceWASMMode
       \/ Len(fetches) < MaxFetches /\ \E url \in Urls \cup OtherUrls : Fetch(url)
       \/ FetchStep
       \/ \E r \in DOMAIN fetches : FetchPassed(r)
    /\ UNCHANGED <<composeVars, listenerVars, pureVars>>

SpecFetch == Init /\ [][NextFetch]_vars

\* the broadcaster alone, driven through its public methods
NextProgress ==
    /\ \/ CallBeginNewSession
       \/ CallSetNetworkProgress
       \/ CallSetBuilding
       \/ CallSetReady
       \/ CallSetError
    /\ UNCHANGED <<loaderVars, fetchVars, composeVars, listenerVars, pureVars>>

SpecProgress == Init /\ [][NextProgress]_vars

\* the compositing of one removeBackground() call, for every small image,
\* strip height and mask, once the session is there and inference returned
InitCompose ==
    /\ gpu = "fp16"
    /\ InitCommon
    /\ pv = NoPreview
    /\ NoListeners
    /\ NoPure
    /\ \E in \in ComposeInputs, kind \in MaskKinds :
           rb = NewJob(in[1], in[2], in[3], kind)

NextCompose ==
    /\ \/ MaskResized
       \/ BitmapFailed
       \/ Offload
       \/ WorkerUnavailable
       \/ WorkerCompose
       \/ WorkerEncoded
       \/ WorkerEncodeFailed
       \/ OnWorkerResult
       \/ OnWorkerError
       \/ OnWorkerErrorEvent
       \/ FallbackEncoded
       \/ FallbackEncodeFailed
    /\ UNCHANGED <<progressVars, loaderVars, fetchVars, pv, listenerVars, pureVars>>

SpecCompose == InitCompose /\ [][NextCompose]_vars

\* the preview size of one image, computed by the worker and by the fallback
InitPreview ==
    /\ gpu = "fp16"
    /\ InitCommon
    /\ rb = NoJob
    /\ NoListeners
    /\ NoPure
    /\ \E width \in PreviewSides, height \in PreviewSides, tieDown \in BOOLEAN :
           pv = NewPreview(width, height, tieDown)

NextPreview ==
    /\ \/ WorkerPreview
       \/ FallbackPreview
    /\ UNCHANGED <<progressVars, loaderVars, fetchVars, rb, listenerVars, pureVars>>

SpecPreview == InitPreview /\ [][NextPreview]_vars

\* the broadcaster with subscribers: its methods, subscribe and the
\* returned unsubscribe closures, called in any order
\* a broadcaster method called while listeners are observed, with its emit()
ObservedCall ==
    /\ \/ state.sessionId < MaxListenerSessions /\ CallBeginNewSession
       \/ CallSetNetworkProgress
       \/ CallSetBuilding
       \/ CallSetReady
       \/ CallSetError
    /\ call'.sessionId <= MaxListenerSessions
    /\ call'.op = "setNetworkProgress" => call'.percentH \in ListenerPercents
    /\ call'.op = "setError" => state'.errorMsg # "stream failed"
    /\ Notify

NextListeners ==
    /\ \/ Len(ops) < MaxOps /\ ObservedCall
       \/ Len(handles) < MaxSubscribes /\ \E l \in ListenerFns : subscribe(l)
       \/ \E h \in DOMAIN handles :
             handles[h].calls < MaxUnsubscribes /\ unsubscribe(h)
    /\ UNCHANGED <<loaderVars, fetchVars, composeVars, pureVars>>

SpecListeners == Init /\ [][NextListeners]_vars

\* the broadcaster observed over a longer run of accepted operations by
\* listeners that subscribe and stay
NextObserved ==
    /\ \/ /\ Len(ops) < MaxObservedOps
          /\ ObservedCall
          /\ emitted'
          /\ call'.op = "setNetworkProgress" => call'.percentH >= 0
       \/ Len(handles) < MaxObservers /\ \E l \in ListenerFns : subscribe(l)
    /\ UNCHANGED <<loaderVars, fetchVars, composeVars, pureVars>>

SpecObserved == Init /\ [][NextObserved]_vars

\* removeBackground() from its call to the end of inference, next to the
\* host's own init() calls, the loads and a subscriber
NextRemove ==
    \/ \E url \in ImageUrls : removeBackground(url) /\ Notify /\ UNCHANGED pureVars
    \/ /\ Len(calls) < MaxHostInits /\ rb.pc = "none"
       /\ init /\ Notify /\ UNCHANGED <<composeVars, pureVars>>
    \/ \E l \in DOMAIN loads :
          LoadProbed(l) /\ Notify /\ UNCHANGED <<composeVars, pureVars>>
    \/ \E l \in DOMAIN loads :
          LoadModelLoaded(l) /\ Notify /\ UNCHANGED <<composeVars, pureVars>>
    \/ \E l \in DOMAIN loads :
          LoadReady(l) /\ Notify /\ UNCHANGED <<composeVars, pureVars>>
    \/ \E l \in DOMAIN loads :
          LoadFailed(l) /\ Notify /\ UNCHANGED <<composeVars, pureVars>>
    \/ /\ Len(handles) < MaxObservers
       /\ \E l \in ListenerFns : subscribe(l)
       /\ UNCHANGED <<loaderVars, fetchVars, composeVars, pureVars>>
    \/ /\ RbSession
       /\ UNCHANGED <<progressVars, loaderVars, fetchVars, pv, listenerVars, pureVars>>
    \/ /\ RbInitFailed
       /\ UNCHANGED <<progressVars, loaderVars, fetchVars, pv, listenerVars, pureVars>>
    \/ /\ RbInferred
       /\ UNCHANGED <<progressVars, loaderVars, fetchVars, pv, listenerVars, pureVars>>
    \/ /\ RbInferenceFailed
       /\ UNCHANGED <<progressVars, loaderVars, fetchVars, pv, listenerVars, pureVars>>

SpecRemove == Init /\ [][NextRemove]_vars

\* the byte counting of one download alone, for every content-length
InitPercent ==
    /\ gpu = "fp16" /\ InitCommon /\ NoComposition /\ NoListeners
    /\ probe = NoProbe
    /\ pct \in {NewPercent(total) : total \in PercentTotals}

NextPercent ==
    \/ /\ ChunkCounted
       /\ UNCHANGED <<progressVars, loaderVars, fetchVars, composeVars, listenerVars, probe>>
    \/ /\ DoneCounted
       /\ UNCHANGED <<progressVars, loaderVars, fetchVars, composeVars, listenerVars, probe>>

SpecPercent == InitPercent /\ [][NextPercent]_vars

\* the compositor worker alone, handed any compose message: sizes from 0,
\* a bitmap or none, an alpha buffer up to one byte longer than the image
\* and an alphaLength that fits it, exceeds it or is missing
ComposeMessages ==
    {[width |-> w, height |-> h, alpha |-> Mask("ramp", n), alphaLength |-> len,
      bitmap |-> b] :
        w \in 0..MaxDim, h \in 0..MaxDim, n \in 0..(MaxDim * MaxDim + 1),
        len \in {NoLength} \cup 0..(MaxDim * MaxDim + 1), b \in {"none", "open"}}

InitWorker ==
    /\ gpu = "fp16" /\ InitCommon /\ NoListeners /\ NoPure
    /\ pv = NoPreview
    /\ \E msg \in ComposeMessages, hChunk \in {1, H_CHUNK} :
          /\ msg.alphaLength \in {NoLength, Len(msg.alpha), Len(msg.alpha) + 1}
          /\ rb = [NewJob(msg.width, msg.height, hChunk, "ramp")
                     EXCEPT !.pc = "offloaded", !.worker = "module", !.msg = msg,
                            !.bitmap = IF msg.bitmap = "open" THEN "transferred"
                                       ELSE "none"]

NextWorker ==
    \/ /\ WorkerCompose
       /\ UNCHANGED <<progressVars, loaderVars, fetchVars, pv, listenerVars, pureVars>>
    \/ /\ WorkerEncoded
       /\ UNCHANGED <<progressVars, loaderVars, fetchVars, pv, listenerVars, pureVars>>
    \/ /\ WorkerEncodeFailed
       /\ UNCHANGED <<progressVars, loaderVars, fetchVars, pv, listenerVars, pureVars>>

SpecWorker == InitWorker /\ [][NextWorker]_vars

\* the broadcaster alone, from its first session and from a session close
\* to the largest 32-bit id
SessionStarts == {0, Int32Max - 1}

InitSessions ==
    /\ gpu = "fp16" /\ NoComposition /\ NoListeners /\ NoPure
    /\ \E id \in SessionStarts : state = [InitialState EXCEPT !.sessionId = id]
    /\ emitted = FALSE
    /\ call = NoCall
    /\ patched = FALSE
    /\ activeSessionId = 0
    /\ cachedLoad = Null
    /\ forceWasmNext = FALSE
    /\ loads = <<>>
    /\ calls = <<>>
    /\ forcedDuringLoad = FALSE
    /\ lastForced = FALSE
    /\ fetches = <<>>
    /\ inflight = <<>>
    /\ memCache = <<>>
    /\ netCalls = [url \in Urls \cup MissingUrls \cup OtherUrls |-> 0]

SpecSessions == InitSessions /\ [][NextProgress]_vars

\* the patched fetch asked for an artifact the server has and for one it
\* has not
NextStatus ==
    /\ \/ Len(calls) < MaxFetchInits /\ init
       \/ /\ Len(fetches) < MaxFetches
          /\ \E url \in {"/onnx/model.onnx"} \cup MissingUrls : Fetch(url)
       \/ FetchStep
    /\ UNCHANGED <<composeVars, listenerVars, pureVars>>

SpecStatus == Init /\ [][NextStatus]_vars

\* the capability probes alone, in every environment
InitProbe ==
    /\ gpu = "fp16" /\ InitCommon /\ NoComposition /\ NoListeners
    /\ pct = NoPercent
    /\ probe \in {NewProbe(env) : env \in Environments}

NextProbe ==
    \/ /\ GetCapabilities
       /\ UNCHANGED <<progressVars, loaderVars, fetchVars, composeVars, listenerVars, pct>>
    \/ /\ CheckWebGPUCapabilities
       /\ UNCHANGED <<progressVars, loaderVars, fetchVars, composeVars, listenerVars, pct>>

SpecProbe == InitProbe /\ [][NextProbe]_vars

(* ------------------------------- claims -------------------------------- *)
Settled == {"done", "failed", "nobody"}
FetchesOf(url) == {r \in DOMAIN fetches : fetches[r].url = url}

\* C1: while no request for a URL has completed, however many requests were
\* made for it, the network transport was invoked at most once for it, and
\* requests that have delivered their whole body delivered the same bytes.
C1_SingleFlightFetch ==
    \A url \in Urls :
        /\ (\A r \in FetchesOf(url) : fetches[r].pc \notin Settled)
               => netCalls[url] <= 1
        /\ \A r1, r2 \in FetchesOf(url) :
               (fetches[r1].pc = "done" /\ fetches[r2].pc = "done")
                   => fetches[r1].body = fetches[r2].body

\* C2: an init() call made while the newest load is still in progress, with
\* no forceWASMMode() since that load began, gets that load's promise: it
\* begins no session and starts no load of its own.
C2_ConcurrentLoadsShare ==
    [][ (/\ Len(calls') = Len(calls) + 1
         /\ loads # <<>>
         /\ InProgress(Len(loads))
         /\ ~lastForced)
        => (/\ calls'[Len(calls')] = Len(loads)
            /\ loads' = loads
            /\ state'.sessionId = state.sessionId) ]_vars

\* C3 as claimed: at most one load sequence is in progress in every
\* reachable state.
C3_AtMostOneLoadInProgress == Cardinality(LoadsInProgress) <= 1

\* C3 as amended: at most one load sequence is in progress as long as
\* forceWASMMode() has not been called while a load was in progress.
C3_AtMostOneLoadUnlessForced ==
    ~forcedDuringLoad => Cardinality(LoadsInProgress) <= 1

\* a fallback request made while idle, then two init() calls sharing the load
\* in progress
C3_Witness ==
    /\ ~forcedDuringLoad
    /\ forceWasmNext
    /\ \E l \in LoadsInProgress :
           \E c1, c2 \in DOMAIN calls : c1 < c2 /\ calls[c1] = l /\ calls[c2] = l

\* C4: a step of a load whose session is no longer the broadcaster's current
\* one (its building, ready or error report) leaves the ProgressState as it is
\* and notifies nobody.
C4_StaleLoadEventsDropped ==
    [][ \A l \in DOMAIN loads :
            (loads'[l] # loads[l] /\ loads[l].sessionId # state.sessionId)
                => (state' = state /\ ~emitted') ]_vars

ReportOps == {"setNetworkProgress", "setBuilding", "setReady", "setError"}

\* C5: a report called with a session id other than the current one leaves
\* the ProgressState unchanged and does not reach emit().
C5_StaleReportsDropped ==
    [][ (call'.op \in ReportOps /\ call'.sessionId # state.sessionId)
            => (state' = state /\ ~emitted') ]_vars

\* a stale setError arrived in session 2 while it was downloading
C5_Witness ==
    /\ call.op = "setError"
    /\ call.sessionId = 1
    /\ state.sessionId = 2
    /\ state.phase = "downloading"
    /\ state.progress = 55
    /\ ~emitted

\* C6: between two consecutive states of one session the progress does not
\* decrease, unless the later state is an error state.
C6_ProgressMonotone ==
    [][ (state'.sessionId = state.sessionId /\ state'.phase # "error")
            => state'.progress >= state.progress ]_vars

\* C7: progress = 100 implies phase = ready.
C7_HundredOnlyWhenReady == state.progress = 100 => state.phase = "ready"

\* C8: a load that has chosen its device chose wasm exactly when
\* forceWASMMode() was called between the previous load's start and its own
\* (or the machine has no WebGPU); a call made later, while the load is in
\* progress, does not change its choice, and an earlier load does not consume
\* the flag.
C8_ExactlyNextLoadFallsBack ==
    \A l \in DOMAIN loads :
        loads[l].pc # "probe" =>
            loads[l].device =
                IF loads[l].armed \/ gpu = "none" THEN "wasm" ELSE "webgpu"

\* C9: once the newest load has settled, with no forceWASMMode() since it
\* began, the flag is clear, whether the load succeeded or failed.
C9_FlagConsumedWhateverOutcome ==
    (loads # <<>> /\ ~InProgress(Len(loads)) /\ ~lastForced) => ~forceWasmNext

\* C10: when a load fails, the memoized promise is cleared and the error is
\* reported for that load's own session id.
C10_FailureReportedForOwnSession ==
    [][ \A l \in DOMAIN loads :
            (InProgress(l) /\ loads'[l].pc = "failed")
                => (/\ cachedLoad' = Null
                    /\ state' = setError(state, loads[l].sessionId, "load failed")) ]_vars

\* the mask a composited call got from resize(), and the alpha byte of
\* pixel (x, y) of a surface
MaskOf(j) == Mask(j.kind, j.width * j.height)
AlphaOf(surface, width, x, y) == surface[4 * (y * width + x) + 3]
Pixels(j) == (0..(j.width - 1)) \X (0..(j.height - 1))

\* C11: whenever the synchronous fallback produced the result, the alpha of
\* every pixel (x, y) of the composite is mask[y * width + x], whichever way
\* the off-thread path failed before it
C11_FallbackCompositesTheMask ==
    (rb.pc = "done" /\ rb.path = "fallback") =>
        \A p \in Pixels(rb) :
            AlphaOf(rb.canvas.surface, rb.width, p[1], p[2])
                = MaskOf(rb)[p[2] * rb.width + p[1] + 1]

\* C18: a call whose resampled mask has not width * height entries is
\* rejected with the mask-mismatch error and never reaches the compositing
\* engine: no worker, no bitmap, no strip read or written, no result
C18_MismatchRejectedBeforeCompositing ==
    (rb.pc \notin {"none", "inferred"} /\ rb.maskLength # rb.width * rb.height) =>
        /\ rb.pc = "rejected"
        /\ rb.error = "Mask size mismatch"
        /\ rb.worker = "none"
        /\ rb.bitmap = "none"
        /\ rb.msg = NoMessage
        /\ rb.wcanvas = NoCanvas
        /\ rb.canvas = NoCanvas
        /\ rb.path = "none"

C18_Witness ==
    /\ rb.pc = "rejected"
    /\ rb.error = "Mask size mismatch"
    /\ rb.width * rb.height > 1
    /\ rb.maskLength = rb.width * rb.height + 1

\* the strip loop has run over a canvas with the mask alpha: every pixel
\* has the mask's alpha and the source's colour, every row was read once
\* and written once
Composited(canvas, alpha, width, height) ==
    /\ \A x \in 0..(width - 1), y \in 0..(height - 1) :
        /\ AlphaOf(canvas.surface, width, x, y) = alpha[y * width + x + 1]
        /\ \A c \in 0..2 :
              canvas.surface[4 * (y * width + x) + c]
                  = SourceRGBA(width, height)[4 * (y * width + x) + c]
    /\ \A y \in 0..(height - 1) : canvas.reads[y] = 1 /\ canvas.writes[y] = 1

\* C19: for every width, height and strip height, after the strip loop of
\* the worker and of the fallback, run with a mask of width * height
\* entries, pixel (x, y) has alpha mask[y * width + x] and its R, G, B
\* unchanged, and every row was read once and written back once
C19_StripLoopSetsAlphaOnly ==
    /\ rb.wcanvas # NoCanvas =>
           Composited(rb.wcanvas, rb.msg.alpha, rb.width, rb.height)
    /\ (rb.canvas # NoCanvas /\ Len(rb.alpha) = rb.width * rb.height) =>
           Composited(rb.canvas, rb.alpha, rb.width, rb.height)

C19_Witness ==
    /\ rb.canvas # NoCanvas
    /\ Len(rb.alpha) = rb.width * rb.height
    /\ rb.hChunk = H_CHUNK
    /\ rb.height = H_CHUNK + 1

\* p is max(1, r) for an integer r nearest to side * scale
IsPreviewSide(p, side, scale) ==
    \/ p >= 1 /\ 2 * (p * scale[2] - side * scale[1]) \in (0 - scale[2])..scale[2]
    \/ p = 1 /\ 2 * side * scale[1] <= scale[2]

SessionRunAt(i) ==
    /\ i + 3 <= Len(ops)
    /\ ops[i].op = "setNetworkProgress"
    /\ ops[i + 1].op = "setNetworkProgress"
    /\ ops[i + 2].op = "setBuilding"
    /\ ops[i + 3].op = "setReady"
    /\ \A k \in 1..3 : ops[i + k].sessionId = ops[i].sessionId
    /\ ops[i].percentH <= ops[i + 1].percentH
    /\ ops[i + 1].percentH <= 9900

\* l subscribed before accepted operation i and was never unsubscribed
RegisteredBefore(l, i) ==
    /\ \E h \in DOMAIN handles : handles[h].listener = l /\ handles[h].at < i
    /\ \A h \in DOMAIN handles : handles[h].listener = l => handles[h].calls = 0

\* what l was notified of by accepted operations i..i+3
ObservedFrom(l, i) ==
    SelectSeq(received[l], LAMBDA d : d.cause = "emit" /\ d.at >= i /\ d.at <= i + 3)

\* C15 as stated: a subscriber registered before a session's run
\* reportDownload(p1), reportDownload(p2), reportBuilding, reportReady with
\* p1 <= p2 <= 99 observes exactly (downloading, p1), (downloading, p2),
\* (building, max(p2, 99)), (ready, 100), one notification per operation
C15_ObservesReportedPercents ==
    \A l \in ListenerFns, i \in 1..Len(ops) :
        (SessionRunAt(i) /\ RegisteredBefore(l, i)) =>
            LET obs == ObservedFrom(l, i)
            IN  /\ Len(obs) = 4
                /\ \A k \in 1..4 : obs[k].at = i + k - 1
                /\ obs[1].state.phase = "downloading"
                /\ obs[1].state.progress * 100 = ops[i].percentH
                /\ obs[2].state.phase = "downloading"
                /\ obs[2].state.progress * 100 = ops[i + 1].percentH
                /\ obs[3].state.phase = "building"
                /\ obs[3].state.progress * 100 = Max2(ops[i + 1].percentH, 9900)
                /\ obs[4].state.phase = "ready"
                /\ obs[4].state.progress = 100

\* C15, amended: the observed download percents are the reported ones
\* rounded down to an integer and raised to 0 when negative: exactly
\* (downloading, max(0, floor(p1))), (downloading, max(0, floor(p2))),
\* (building, 99), (ready, 100), one notification per operation, in order
C15_ObservesFlooredPercents ==
    \A l \in ListenerFns, i \in 1..Len(ops) :
        (SessionRunAt(i) /\ RegisteredBefore(l, i)) =>
            LET obs == ObservedFrom(l, i)
            IN  /\ Len(obs) = 4
                /\ \A k \in 1..4 : obs[k].at = i + k - 1
                /\ obs[1].state.phase = "downloading"
                /\ obs[1].state.progress = Max2(0, Floor100(ops[i].percentH))
                /\ obs[2].state.phase = "downloading"
                /\ obs[2].state.progress = Max2(0, Floor100(ops[i + 1].percentH))
                /\ obs[3].state.phase = "building"
                /\ obs[3].state.progress = 99
                /\ obs[4].state.phase = "ready"
                /\ obs[4].state.progress = 100

C15_Witness ==
    /\ Len(ops) = 4
    /\ SessionRunAt(1)
    /\ ops[1].percentH = 1000
    /\ ops[2].percentH = 5550
    /\ RegisteredBefore("f", 1)
    /\ Len(ObservedFrom("f", 1)) = 4

\* l has a subscription whose unsubscribe has not been called
ActiveSubscription(l) ==
    \E h \in DOMAIN handles :
        handles[h].listener = l /\ handles[h].returned /\ handles[h].calls = 0

\* C16: subscribe(l) delivers the current state to l exactly once before it
\* returns and registers l; every accepted change is delivered to every
\* listener holding a subscription whose unsubscribe was not called; a
\* listener with none receives nothing; a second call of an unsubscribe
\* changes neither the listener set nor any delivery
C16_SubscribeContract ==
    [][ /\ Len(handles') > Len(handles) =>
            LET l == call'.listener
            IN  /\ received' = [received EXCEPT ![l] =
                                   Append(@, Delivery(state, "replay", Len(ops)))]
                /\ \E i \in DOMAIN listeners' : listeners'[i] = l
                /\ state' = state
        /\ ops' # ops =>
            \A l \in ListenerFns :
                IF ActiveSubscription(l)
                THEN received'[l] =
                         Append(received[l], Delivery(state', "emit", Len(ops')))
                ELSE received'[l] = received[l]
        /\ \A h \in DOMAIN handles :
               (handles'[h].calls > handles[h].calls /\ handles[h].calls >= 1) =>
                   listeners' = listeners /\ received' = received
      ]_vars

\* the state a broadcaster call leaves, from the call's arguments
StateAfter(st, c, st2) ==
    CASE c.op = "beginNewSession" -> beginNewSession(st)
      [] c.op = "setNetworkProgress" -> setNetworkProgress(st, c.percentH, c.sessionId)
      [] c.op = "setBuilding" -> setBuilding(st, c.sessionId)
      [] c.op = "setReady" -> setReady(st, c.sessionId)
      [] c.op = "setError" -> setError(st, c.sessionId, st2.errorMsg)
      [] OTHER -> st

\* C17: when a listener that throws is notified, by an emit or by the
\* replay of subscribe, every registered listener is notified of that
\* change exactly once, the listener set keeps the thrower, the state is
\* the one the operation set, and no exception reaches the caller
C17_ThrowingListenerIsolated ==
    [][ /\ (ops' # ops /\ \E i \in DOMAIN listeners : listeners[i] \in Throwing) =>
            /\ \A l \in ListenerFns :
                  IF \E i \in DOMAIN listeners : listeners[i] = l
                  THEN received'[l] =
                           Append(received[l], Delivery(state', "emit", Len(ops')))
                  ELSE received'[l] = received[l]
            /\ listeners' = listeners
            /\ state' = StateAfter(state, call', state')
            /\ escaped' = FALSE
        /\ (Len(handles') > Len(handles) /\ call'.listener \in Throwing) =>
            /\ \E i \in DOMAIN listeners' : listeners'[i] = call'.listener
            /\ \A i \in DOMAIN listeners : listeners'[i] = listeners[i]
            /\ handles'[Len(handles')].returned
            /\ state' = state
            /\ escaped' = FALSE
      ]_vars

C17_Witness ==
    /\ listeners = <<"bad", "f">>
    /\ Len(ops) = 1
    /\ state.phase = "downloading"
    /\ Len(received["bad"]) = 2
    /\ Len(received["f"]) = 2
    /\ received["f"][2] = Delivery(state, "emit", 1)

\* C12: once the buffer of a URL is in the memory cache it stays there, and
\* every request for that URL is answered from it in the call itself, with
\* the downloaded bytes, without a network request, and reports
\* (downloading, 99) for the active session
C12_CachedAnsweredFromMemory ==
    [][ /\ \A u \in DOMAIN memCache :
              u \in DOMAIN memCache' /\ memCache'[u] = memCache[u]
        /\ (Len(fetches') > Len(fetches)
              /\ fetches'[Len(fetches')].url \in DOMAIN memCache) =>
            LET f == fetches'[Len(fetches')]
            IN  /\ netCalls' = netCalls
                /\ f.pc = "done"
                /\ f.body = memCache[f.url]
                /\ f.body = Merge(Content(f.url))
                /\ emitted'
                /\ state'.sessionId = activeSessionId
                /\ state'.phase = "downloading"
                /\ state'.progress = 99
      ]_vars

C12_Witness ==
    \E r \in DOMAIN fetches :
        /\ r > 1
        /\ fetches[r].pc = "done"
        /\ fetches[r].chunks = <<>>
        /\ fetches[r].body = Merge(Content(fetches[r].url))
        /\ netCalls[fetches[r].url] = 1
        /\ state.phase = "downloading"
        /\ state.progress = 99

\* C13: in the step in which reading the network stream of a URL fails, the
\* in-flight map and the memory cache end without an entry for the URL (so
\* that the next request goes to the network) and the state of the active
\* session is (error, 0); and no waiter of a failed download resolves
C13_StreamFailureClearsAndReports ==
    [][ /\ \A r \in DOMAIN fetches :
              (fetches[r].pc = "streaming" /\ fetches'[r].pc = "failed") =>
                  /\ fetches[r].url \notin DOMAIN inflight'
                  /\ fetches[r].url \notin DOMAIN memCache'
                  /\ state'.sessionId = activeSessionId
                  /\ state'.phase = "error"
                  /\ state'.progress = 0
        /\ \A r \in DOMAIN fetches :
              (fetches[r].pc = "waiting" /\ fetches[fetches[r].promise].pc = "failed") =>
                  fetches'[r].pc \in {"waiting", "failed"}
      ]_vars

\* C14: every response body can still settle: a download that waits for
\* the network has a network step to come, and a coalesced waiter has its
\* own settling or a read of the owning download to come
C14_EveryCallCanStillSettle ==
    /\ \A r \in DOMAIN fetches :
           fetches[r].pc \in {"headers", "streaming"} =>
               ENABLED (FetchHeaders(r) \/ FetchNoBody(r) \/ FetchRejected(r)
                          \/ PullChunk(r) \/ PullDone(r) \/ PullFailed(r))
    /\ \A r \in DOMAIN fetches :
           fetches[r].pc = "waiting" =>
               ENABLED (JoinSettled(r) \/ PullChunk(fetches[r].promise)
                          \/ PullDone(fetches[r].promise)
                          \/ PullFailed(fetches[r].promise))

\* the descriptor of an environment in which the probe uses the given adapter
ProbeDescriptor(present, adapter) ==
    IF ~present \/ adapter \in {"missing", "rejects", "null", "broken"}
    THEN [device |-> "wasm", dtype |-> "fp32"]
    ELSE IF adapter = "f16" THEN [device |-> "webgpu", dtype |-> "fp16"]
    ELSE [device |-> "webgpu", dtype |-> "fp32"]

\* the adapter checkWebGPUCapabilities() uses: the backend's, else the requested
AdapterInUse(env) ==
    IF env.backend # "undefined" THEN env.backend ELSE env.requested

\* C21: a capability probe that has returned has not thrown, and what it
\* returned is decided by the environment alone: wasm with fp32 when the GPU
\* API is absent, when there is no adapter or when a step threw, else webgpu
\* with fp16 if the adapter has shader-f16 and webgpu with fp32 if not
C21_ProbeFollowsEnvironment ==
    /\ "getCapabilities" \in probe.returned =>
          /\ probe.capabilities # Thrown
          /\ probe.capabilities = ProbeDescriptor(probe.env.gpu, probe.env.requested)
    /\ "checkWebGPUCapabilities" \in probe.returned =>
          /\ probe.check.hasFP16 => probe.check.hasWebGPU
          /\ [device |-> IF probe.check.hasWebGPU THEN "webgpu" ELSE "wasm",
              dtype  |-> IF probe.check.hasFP16 THEN "fp16" ELSE "fp32"]
                = ProbeDescriptor(probe.env.gpu, AdapterInUse(probe.env))

\* both probes have returned where requesting the adapter rejected
C21_Witness ==
    /\ probe.returned = {"getCapabilities", "checkWebGPUCapabilities"}
    /\ probe.env.gpu /\ probe.env.backend = "undefined"
    /\ probe.env.requested = "rejects"
    /\ probe.capabilities = [device |-> "wasm", dtype |-> "fp32"]

\* the configurations in their order of preference
Configurations == << <<"webgpu", "fp16">>, <<"webgpu", "fp32">>, <<"wasm", "fp32">> >>

\* the configurations the fallback flag and the environment allow
Allowed(flag, g) ==
    {<<"wasm", "fp32">>}
      \cup (IF ~flag /\ g # "none" THEN {<<"webgpu", "fp32">>} ELSE {})
      \cup (IF ~flag /\ g = "fp16" THEN {<<"webgpu", "fp16">>} ELSE {})

\* the first allowed configuration in the order of preference
Preferred(flag, g) ==
    Configurations[CHOOSE i \in 1..3 :
        /\ Configurations[i] \in Allowed(flag, g)
        /\ \A j \in 1..(i - 1) : Configurations[j] \notin Allowed(flag, g)]

\* C22: when a load passes its configuration to the inference collaborator,
\* the pair is the most preferred of webgpu+fp16, webgpu+fp32 and wasm+fp32
\* that the fallback flag and the GPU allow at that moment, and no load
\* ever holds the pair wasm+fp16
C22_ConfigurationByPreference ==
    [][ /\ \A l \in DOMAIN loads :
              (loads[l].pc = "probe" /\ loads'[l].pc = "model") =>
                  <<loads'[l].device, loads'[l].dtype>> = Preferred(forceWasmNext, gpu)
        /\ \A l \in DOMAIN loads' :
              loads'[l].pc # "probe" =>
                  /\ <<loads'[l].device, loads'[l].dtype>>
                        \in {Configurations[i] : i \in 1..3}
                  /\ <<loads'[l].device, loads'[l].dtype>> # <<"wasm", "fp16">>
      ]_vars

\* the flag forced wasm where the GPU offers half precision
C22_Witness ==
    \E l \in DOMAIN loads :
        /\ loads[l].pc = "model"
        /\ gpu = "fp16"
        /\ forceWasmNext
        /\ loads[l].device = "wasm"
        /\ loads[l].dtype = "fp32"

\* C23: a removeBackground call with the empty locator rejects in its first
\* step: it begins no session and starts no load, the ProgressState and the
\* memoized load are as before, no listener receives anything and no
\* network request is made; and it never comes to inference
C23_EmptyUrlRejectedFirst ==
    [][ /\ (rb.pc = "none" /\ rb'.pc # "none" /\ rb'.url = "") =>
              /\ rb'.pc = "rejected"
              /\ rb'.error = "URL is empty"
              /\ state' = state
              /\ cachedLoad' = cachedLoad
              /\ activeSessionId' = activeSessionId
              /\ loads' = loads
              /\ calls' = calls
              /\ ~emitted'
              /\ received' = received
              /\ ops' = ops
              /\ netCalls' = netCalls
              /\ fetches' = fetches
        /\ rb'.url = "" => rb'.pc = "rejected"
      ]_vars

\* the empty locator was rejected while a load was memoized and in
\* progress and a listener was subscribed
C23_Witness ==
    /\ rb.pc = "rejected"
    /\ rb.url = ""
    /\ cachedLoad # Null
    /\ loads[cachedLoad].pc = "processor"
    /\ listeners # <<>>
    /\ state.phase = "building"

\* C24: a request through the patched fetch for a URL outside the artifact
\* path goes to the original transport, once and for the same URL, and
\* what the transport answers is the caller's response; the in-flight map,
\* the memory cache and the ProgressState stay as they are and no listener
\* is notified
C24_OtherUrlsPassThrough ==
    [][ /\ \A url \in OtherUrls :
              (Len(fetches') = Len(fetches) + 1 /\ fetches'[Len(fetches')].url = url) =>
                  /\ fetches'[Len(fetches')].pc = "passthrough"
                  /\ netCalls' = [netCalls EXCEPT ![url] = @ + 1]
                  /\ inflight' = inflight
                  /\ memCache' = memCache
                  /\ state' = state
                  /\ ~emitted'
        /\ \A r \in DOMAIN fetches :
              fetches[r].url \in OtherUrls =>
                  /\ fetches'[r].pc \in {"passthrough", "passed", "failed"}
                  /\ fetches'[r].pc = "passed" =>
                        fetches'[r].body = Merge(Content(fetches[r].url))
                  /\ fetches'[r] # fetches[r] =>
                        /\ inflight' = inflight
                        /\ memCache' = memCache
                        /\ state' = state
                        /\ ~emitted'
      ]_vars

\* a request for another URL has been answered by the transport while a
\* session was active and an artifact was in flight
C24_Witness ==
    /\ activeSessionId > 0
    /\ inflight # <<>>
    /\ \E r \in DOMAIN fetches :
           fetches[r].url \in OtherUrls /\ fetches[r].pc = "passed"

\* C28: the percent reported after a chunk of a download with a known
\* content-length is a whole number in 0..99 and equals
\* min(99, floor(bytesReceived * 100 / total)), also when more bytes than
\* declared have arrived; every other report is in 0..99 too
C28_PercentIsFloorOfRatio ==
    /\ pct.reported \in 0..99
    /\ (pct.total > 0 /\ pct.chunks > 0 /\ ~pct.done) =>
           pct.reported = Min2(99, (pct.loaded * 100) \div pct.total)

\* the network downloads of a URL that have been started and have neither
\* completed nor failed nor been cancelled
DownloadsOf(url) ==
    {r \in DOMAIN fetches :
        fetches[r].url = url /\ fetches[r].pc \in {"headers", "streaming"}}

\* C25: the in-flight map holds an entry for a URL exactly while a network
\* download of it has been started and has not completed, failed or been
\* cancelled, and there is at most one such download per URL
C25_InflightIffDownloading ==
    \A url \in Urls :
        /\ url \in DOMAIN inflight <=> DownloadsOf(url) # {}
        /\ Cardinality(DownloadsOf(url)) <= 1

\* C26: an entry of the memory cache is never removed and never replaced:
\* it keeps its bytes, and no completing download stores a buffer under a
\* URL that has an entry
C26_MemCacheAppendOnly ==
    [][ \A url \in DOMAIN memCache :
            /\ url \in DOMAIN memCache'
            /\ memCache'[url] = memCache[url]
            /\ ~ \E r \in DOMAIN fetches :
                    /\ fetches[r].url = url
                    /\ fetches[r].pc = "streaming"
                    /\ fetches'[r].pc = "done"
      ]_vars

\* C27: the step that completes a wrapped download stores the bytes that
\* were forwarded to the primary reader, in their order, removes the
\* in-flight entry and resolves the shared promise; every coalesced
\* waiter and every cache hit that has its body has those same bytes
C27_CompletedBufferIsWhatWasForwarded ==
    [][ /\ \A r \in DOMAIN fetches :
              (fetches[r].pc = "streaming" /\ fetches'[r].pc = "done") =>
                  /\ fetches[r].url \in DOMAIN memCache'
                  /\ memCache'[fetches[r].url] = fetches[r].body
                  /\ fetches'[r].body = fetches[r].body
                  /\ fetches[r].url \notin DOMAIN inflight'
                  /\ fetches'[r].promise = r
        /\ \A r \in DOMAIN fetches' :
              (fetches'[r].pc = "done" /\ fetches'[r].promise # r) =>
                  /\ fetches'[r].promise # Null =>
                        /\ fetches'[fetches'[r].promise].pc = "done"
                        /\ fetches'[r].body = fetches'[fetches'[r].promise].body
                  /\ fetches'[r].body = memCache'[fetches'[r].url]
      ]_vars

\* a download of three bytes in two chunks has completed and its coalesced
\* waiter has read the buffer
C27_Witness ==
    \E r, w \in DOMAIN fetches :
        /\ fetches[r].pc = "done" /\ fetches[r].promise = r
        /\ Len(fetches[r].chunks) = 2
        /\ fetches[w].pc = "done" /\ fetches[w].promise = r /\ w # r
        /\ fetches[w].body = fetches[r].body
        /\ memCache[fetches[r].url] = fetches[r].body

\* a compose message the worker must not act on
Malformed(msg) ==
    \/ msg.width = 0
    \/ msg.height = 0
    \/ msg.bitmap = "none"
    \/ Len(msg.alpha) # msg.width * msg.height
    \/ msg.alphaLength # msg.width * msg.height

\* C29: once the worker has handled a compose message with width 0,
\* height 0, no bitmap or an alpha buffer whose length is not
\* width * height, it has read and written no strip and what it posts is
\* an error
C29_MalformedComposeRejected ==
    (rb.pc \in {"encoding", "replied"} /\ Malformed(rb.msg)) =>
        /\ rb.wcanvas = NoCanvas
        /\ rb.pc = "replied"
        /\ rb.reply = "error"

\* C30: when a compositing call whose bitmap was handed to the worker has
\* ended, by the worker's result or by the fallback after a worker error,
\* the bitmap has been released, and it is never released before it was drawn
C30_BitmapReleasedOnEveryExit ==
    /\ (rb.pc \in {"done", "rejected"} /\ rb.msg.bitmap = "open") =>
           rb.bitmap = "closed"
    /\ rb.bitmap = "closed" => rb.wcanvas # NoCanvas

\* C31: session ids only grow: whenever the session id changes, the new id
\* is greater than the one before, and so than every id before that
C31_SessionIdsIncrease ==
    [][state'.sessionId # state.sessionId => state'.sessionId > state.sessionId]_vars

\* C32: an init() call made when the newest load has succeeded and
\* forceWASMMode() has not run since that load started returns the promise
\* of that load, starts no load, leaves the ProgressState as it is and
\* notifies nobody
C32_LoadedSessionIsReused ==
    [][ ( /\ Len(calls') = Len(calls) + 1
          /\ loads # <<>>
          /\ loads[Len(loads)].pc = "done"
          /\ ~lastForced ) =>
            /\ calls'[Len(calls')] = Len(loads)
            /\ loads' = loads
            /\ state' = state
            /\ ~emitted'
      ]_vars

\* C33: a memoized load is given up only by forceWASMMode(), which leaves
\* the loads as they are, or in the step in which that very load fails
C33_MemoClearedByOwnFailureOnly ==
    [][ (cachedLoad # Null /\ cachedLoad' # cachedLoad) =>
            \/ loads' = loads
            \/ /\ loads[cachedLoad].pc # "failed"
               /\ loads'[cachedLoad].pc = "failed"
      ]_vars

C35_CachedOrInflightNotBoth ==
    (DOMAIN memCache) \cap (DOMAIN inflight) = {}

\* C36: the body of a response with a non-success status is not stored in
\* the memory cache, and no request for its URL is answered from memory
\* with status 200
C36_OnlySuccessCached ==
    \A r \in DOMAIN fetches :
        (fetches[r].promise = r /\ fetches[r].status \notin 200..299) =>
            /\ fetches[r].url \notin DOMAIN memCache
            /\ \A h \in DOMAIN fetches :
                  (fetches[h].url = fetches[r].url /\ fetches[h].promise = Null
                     /\ fetches[h].pc = "done") => fetches[h].status # Ok

\* C37: within a session the phases ready and error are final: while the
\* session id stays the same, a state with phase ready or error keeps its
\* phase and its progress
C37_ReadyAndErrorAreFinal ==
    [][ (state.phase \in {"ready", "error"} /\ state'.sessionId = state.sessionId) =>
            /\ state'.phase = state.phase
            /\ state'.progress = state.progress
      ]_vars

\* C38: the state carries an error message only while its phase is error
C38_ErrorMsgOnlyInError ==
    state.phase # "error" => state.errorMsg = Undefined

\* the subscriptions of l whose unsubscribe has not been called
ActiveSubscriptions(l) ==
    {h \in DOMAIN handles :
        handles[h].listener = l /\ handles[h].returned /\ handles[h].calls = 0}

\* C39: subscriptions are independent: at every accepted change a listener
\* receives the new state once for each of its subscriptions whose
\* unsubscribe has not been called, whichever other subscriptions of the
\* same function were made or ended
C39_SubscriptionsIndependent ==
    [][ ops' # ops =>
          \A l \in ListenerFns :
              Len(received'[l]) = Len(received[l]) + Cardinality(ActiveSubscriptions(l))
      ]_vars

====
